---------------------------- MODULE Spec2Model ----------------------------
(***************************************************************************)
(* levelq: a FIFO queue kept in a LevelDB store (src/queue.go).            *)
(*                                                                         *)
(* The queue is a ring of identifiers 0 .. MaxQueueSize-1.  head is the    *)
(* identifier of the last dequeued entry, tail that of the last enqueued   *)
(* one; entries live in the store under the big-endian encoding of their   *)
(* identifier.  Nothing but the entries is persisted: OpenQueue rebuilds   *)
(* head and tail from the first and last key of the store.                 *)
(*                                                                         *)
(* Four specifications are given.  Spec runs the handlers one call at a    *)
(* time (each action is a whole call).  SpecObj does the same with the     *)
(* calls that gob-encode and decode objects.  SpecLookup calls             *)
(* getValueByID on every head, tail and identifier of the ring.  SpecConc  *)
(* runs the handlers on several threads, statement by statement, with the  *)
(* sync.RWMutex of the Queue.                                              *)
(***************************************************************************)
EXTENDS Integers, Sequences, FiniteSets, TLC

\* The ring size.  src/queue.go:39 sets it to math.MaxUint64 >> 2; the tests
\* (src/queue_test.go:142) run the ring with 5 identifiers, as done here.
MaxQueueSize == 5

\* Width in bytes of head, tail and of a key.  The code uses uint64 and 8-byte
\* keys; TLC's integers are 32 bits wide, so the word is scaled to 2 bytes.
\* MaxQueueSize <= Uint64Mod \div 4 is kept, as at src/queue.go:39.
WordBytes == 2

\* uint64 arithmetic is arithmetic modulo Uint64Mod.
Uint64Mod == 256 ^ WordBytes

\* Enqueues made on a queue opened over an empty store, in Spec: the i-th of
\* them enqueues the value i.
MaxOps == 11

\* Payloads a caller may enqueue on a queue opened over a store with entries.
NumValues == 1

NoVal == 0

\* uint64 subtraction and addition, wrapping around.
USub(a, b) == (a - b + Uint64Mod) % Uint64Mod

UAdd(a, b) == (a + b) % Uint64Mod

----------------------------------------------------------------------------
(* Keys *)

\* binary.BigEndian.PutUint64: most significant byte first.
idToKey(id) ==
    [i \in 1 .. WordBytes |-> (id \div (256 ^ (WordBytes - i))) % 256]

RECURSIVE BigEndianValue(_, _)
BigEndianValue(key, n) ==
    IF n = 0 THEN 0 ELSE 256 * BigEndianValue(key, n - 1) + key[n]

\* binary.BigEndian.Uint64.
keyToID(key) == BigEndianValue(key, WordBytes)

\* LevelDB's default comparer: bytewise, lexicographic (bytes.Compare).
RECURSIVE BytesLess(_, _, _)
BytesLess(a, b, i) ==
    IF i > Len(a) \/ i > Len(b) THEN Len(a) < Len(b)
    ELSE IF a[i] # b[i] THEN a[i] < b[i]
    ELSE BytesLess(a, b, i + 1)

KeyLess(a, b) == BytesLess(a, b, 1)

\* iter.First() / iter.Last(): the smallest / largest key of a non-empty store.
FirstKey(s) == CHOOSE k \in DOMAIN s : \A o \in DOMAIN s : o = k \/ KeyLess(k, o)

LastKey(s) == CHOOSE k \in DOMAIN s : \A o \in DOMAIN s : o = k \/ KeyLess(o, k)

\* The store: a function from the keys present to their values.
EmptyStore == [k \in {} |-> NoVal]

\* db.Put
Put(s, key, value) ==
    [k \in DOMAIN s \cup {key} |-> IF k = key THEN value ELSE s[k]]

\* db.Delete
Delete(s, key) == [k \in DOMAIN s \ {key} |-> s[k]]

----------------------------------------------------------------------------
(* The arithmetic of the ring *)

\* A mutant: the difference taken without adding MaxQueueSize first.
Length_noBias(h, t) == USub(t, h) % MaxQueueSize

\* A mutant: the distance taken as the absolute difference of the counters.
Length_absDiff(h, t) == IF t >= h THEN t - h ELSE h - t

\* Queue.Length: (MaxQueueSize + q.tail - q.head) % MaxQueueSize, in uint64.
Length(h, t) == USub(UAdd(MaxQueueSize, t), h) % MaxQueueSize

\* A mutant: the identifier advanced without wrapping at MaxQueueSize.
NextID_noWrap(x) == UAdd(x, 1)

\* (x + 1) % MaxQueueSize, in uint64 (src/queue.go:101 and :146).
NextID(x) == UAdd(x, 1) % MaxQueueSize

\* A mutant: a ring that is filled up to the last identifier.
IsFull_never(h, t) == FALSE

\* The full check of enqueue.
IsFull(h, t) == NextID(t) = h

----------------------------------------------------------------------------
(* The handlers, as functions of the Queue and the store.                  *)
(* A queue q is [head, tail, isOpen, store]; a handler returns the queue   *)
(* after the call, the error and the value returned.  putOk, getOk, ...    *)
(* say whether the LevelDB call made by the handler succeeds; a failing    *)
(* call returns the store's error: "ErrDelete" from db.Delete, "ErrIO"     *)
(* from the others.                                                        *)

Ret(q, err, val) == [q |-> q, err |-> err, val |-> val]

NewQueue(s) == [head |-> 0, tail |-> 0, isOpen |-> FALSE, store |-> s]

\* A mutant: the bounds check of the wrapped ring (tail < head) left out.
getValueByID_noWrapCase(q, id, getOk) ==
    IF Length(q.head, q.tail) = 0 THEN [err |-> "ErrEmpty", val |-> NoVal]
    ELSE IF q.head < q.tail /\ (id <= q.head \/ id > q.tail)
        THEN [err |-> "ErrOutOfBounds", val |-> NoVal]
    ELSE IF ~getOk THEN [err |-> "ErrIO", val |-> NoVal]
    ELSE IF idToKey(id) \notin DOMAIN q.store
        THEN [err |-> "ErrNotFound", val |-> NoVal]
    ELSE [err |-> "nil", val |-> q.store[idToKey(id)]]

\* Queue.getValueByID
getValueByID(q, id, getOk) ==
    IF Length(q.head, q.tail) = 0 THEN [err |-> "ErrEmpty", val |-> NoVal]
    ELSE IF q.head < q.tail /\ (id <= q.head \/ id > q.tail)
        THEN [err |-> "ErrOutOfBounds", val |-> NoVal]
    ELSE IF q.tail < q.head /\ (id > q.tail /\ id <= q.head)
        THEN [err |-> "ErrOutOfBounds", val |-> NoVal]
    ELSE IF ~getOk THEN [err |-> "ErrIO", val |-> NoVal]
    ELSE IF idToKey(id) \notin DOMAIN q.store
        THEN [err |-> "ErrNotFound", val |-> NoVal]
    ELSE [err |-> "nil", val |-> q.store[idToKey(id)]]

\* A mutant: the closed check left out.
enqueue_noClosedCheck(q, value, putOk) ==
    LET nextID == NextID(q.tail) IN
    IF IsFull(q.head, q.tail) THEN Ret(q, "ErrFull", NoVal)
    ELSE IF ~putOk THEN Ret(q, "ErrIO", NoVal)
    ELSE Ret([q EXCEPT !.store = Put(q.store, idToKey(nextID), value),
                       !.tail = nextID], "nil", NoVal)

\* A mutant: tail advanced before db.Put, and kept when db.Put fails.
enqueue_tailFirst(q, value, putOk) ==
    LET nextID == NextID(q.tail) IN
    IF ~q.isOpen THEN Ret(q, "ErrDBClosed", NoVal)
    ELSE IF IsFull(q.head, q.tail) THEN Ret(q, "ErrFull", NoVal)
    ELSE IF ~putOk THEN Ret([q EXCEPT !.tail = nextID], "ErrIO", NoVal)
    ELSE Ret([q EXCEPT !.store = Put(q.store, idToKey(nextID), value),
                       !.tail = nextID], "nil", NoVal)

\* Queue.enqueue
enqueue(q, value, putOk) ==
    LET nextID == NextID(q.tail) IN
    IF ~q.isOpen THEN Ret(q, "ErrDBClosed", NoVal)
    ELSE IF IsFull(q.head, q.tail) THEN Ret(q, "ErrFull", NoVal)
    ELSE IF ~putOk THEN Ret(q, "ErrIO", NoVal)
    ELSE Ret([q EXCEPT !.store = Put(q.store, idToKey(nextID), value),
                       !.tail = nextID], "nil", NoVal)

\* A mutant: head advanced before the lookup, also when the lookup fails.
dequeue_advanceFirst(q, getOk, delOk) ==
    LET nextID == NextID(q.head)
        got == getValueByID(q, nextID, getOk)
    IN
    IF ~q.isOpen THEN Ret(q, "ErrDBClosed", NoVal)
    ELSE IF got.err # "nil" THEN Ret([q EXCEPT !.head = nextID], got.err, NoVal)
    ELSE IF ~delOk THEN Ret(q, "ErrDelete", NoVal)
    ELSE Ret([q EXCEPT !.store = Delete(q.store, idToKey(nextID)),
                       !.head = nextID], "nil", got.val)

\* A mutant: the newest entry taken instead of the oldest.
dequeue_newest(q, getOk, delOk) ==
    LET nextID == q.tail
        got == getValueByID(q, nextID, getOk)
    IN
    IF ~q.isOpen THEN Ret(q, "ErrDBClosed", NoVal)
    ELSE IF got.err # "nil" THEN Ret(q, got.err, NoVal)
    ELSE IF ~delOk THEN Ret(q, "ErrDelete", NoVal)
    ELSE Ret([q EXCEPT !.store = Delete(q.store, idToKey(nextID)),
                       !.tail = USub(q.tail, 1) % MaxQueueSize], "nil", got.val)

\* A mutant: head advanced before db.Delete, and kept when db.Delete fails.
dequeue_headFirst(q, getOk, delOk) ==
    LET nextID == NextID(q.head)
        got == getValueByID(q, nextID, getOk)
    IN
    IF ~q.isOpen THEN Ret(q, "ErrDBClosed", NoVal)
    ELSE IF got.err # "nil" THEN Ret(q, got.err, NoVal)
    ELSE IF ~delOk THEN Ret([q EXCEPT !.head = nextID], "ErrDelete", NoVal)
    ELSE Ret([q EXCEPT !.store = Delete(q.store, idToKey(nextID)),
                       !.head = nextID], "nil", got.val)

\* Queue.dequeue
dequeue(q, getOk, delOk) ==
    LET nextID == NextID(q.head)
        got == getValueByID(q, nextID, getOk)
    IN
    IF ~q.isOpen THEN Ret(q, "ErrDBClosed", NoVal)
    ELSE IF got.err # "nil" THEN Ret(q, got.err, NoVal)
    ELSE IF ~delOk THEN Ret(q, "ErrDelete", NoVal)
    ELSE Ret([q EXCEPT !.store = Delete(q.store, idToKey(nextID)),
                       !.head = nextID], "nil", got.val)

\* The objects a caller passes to EnqueueObject are [type, n]; the types a
\* caller decodes into are those of DecodeTypes.  gob cannot encode a channel.
ObjTypes == {"string", "chan"}

DecodeTypes == {"string", "bool"}

\* A gob stream is the descriptor of the value's type followed by the value:
\* here the number TypeCode * GobBase + n.  Bytes below GobBase, as enqueue
\* is given directly, are no gob stream.
GobBase == 100

TypeCode(type) == IF type = "string" THEN 1 ELSE IF type = "bool" THEN 2 ELSE 3

\* gob.NewEncoder(&buffer).Encode(value)
GobEncode(obj) ==
    IF obj.type = "chan" THEN [err |-> "ErrEncode", bytes |-> NoVal]
    ELSE [err |-> "nil", bytes |-> TypeCode(obj.type) * GobBase + obj.n]

\* gob.NewDecoder(bytes.NewReader(value)).Decode(valueIface), valueIface a
\* pointer to a variable of the type target.
GobDecode(bytes, target) ==
    IF bytes \div GobBase = TypeCode(target)
        THEN [err |-> "nil", val |-> bytes % GobBase]
    ELSE [err |-> "ErrDecode", val |-> NoVal]

\* Queue.EnqueueObject
EnqueueObject(q, obj, putOk) ==
    LET enc == GobEncode(obj) IN
    IF enc.err # "nil" THEN Ret(q, enc.err, NoVal)
    ELSE enqueue(q, enc.bytes, putOk)

\* A mutant: the value decoded before the entry is removed, and the entry
\* kept when it does not decode.
DequeueObject_decodeFirst(q, target, getOk, delOk) ==
    LET r == dequeue(q, getOk, delOk)
        dec == GobDecode(r.val, target)
    IN
    IF r.err # "nil" THEN r
    ELSE IF dec.err # "nil" THEN Ret(q, dec.err, NoVal)
    ELSE Ret(r.q, "nil", dec.val)

\* Queue.DequeueObject
DequeueObject(q, target, getOk, delOk) ==
    LET r == dequeue(q, getOk, delOk)
        dec == GobDecode(r.val, target)
    IN
    IF r.err # "nil" THEN r
    ELSE IF dec.err # "nil" THEN Ret(r.q, dec.err, NoVal)
    ELSE Ret(r.q, "nil", dec.val)

\* A mutant: the counters kept when the queue is closed.
Close_keepCounters(q, closeOk) ==
    IF ~q.isOpen THEN Ret(q, "nil", NoVal)
    ELSE IF ~closeOk THEN Ret(q, "ErrIO", NoVal)
    ELSE Ret([q EXCEPT !.isOpen = FALSE], "nil", NoVal)

\* A mutant: db.Close() called whether the queue is open or not.
Close_noClosedCheck(q, closeOk) ==
    IF ~closeOk THEN Ret(q, "ErrIO", NoVal)
    ELSE Ret([q EXCEPT !.head = 0, !.tail = 0, !.isOpen = FALSE], "nil", NoVal)

\* Queue.Close
Close(q, closeOk) ==
    IF ~q.isOpen THEN Ret(q, "nil", NoVal)
    ELSE IF ~closeOk THEN Ret(q, "ErrIO", NoVal)
    ELSE Ret([q EXCEPT !.head = 0, !.tail = 0, !.isOpen = FALSE], "nil", NoVal)

\* A mutant: the directory removed also when Close() failed.
Drop_removeAnyway(q, exists, closeOk, rmOk) ==
    LET c == Close(q, closeOk) IN
    IF rmOk \/ ~exists
        THEN [q |-> [c.q EXCEPT !.store = EmptyStore], err |-> c.err,
              val |-> NoVal, exists |-> FALSE]
    ELSE [q |-> c.q, err |-> "ErrIO", val |-> NoVal, exists |-> exists]

\* Queue.Drop on the queue q whose directory exists or not: Close, then
\* os.RemoveAll(q.DataDir), which returns nil for a path that does not exist
\* and, when it fails (rmOk false), is taken to have removed nothing.
Drop(q, exists, closeOk, rmOk) ==
    LET c == Close(q, closeOk) IN
    IF c.err # "nil"
        THEN [q |-> c.q, err |-> c.err, val |-> NoVal, exists |-> exists]
    ELSE IF rmOk \/ ~exists
        THEN [q |-> [c.q EXCEPT !.store = EmptyStore], err |-> "nil",
              val |-> NoVal, exists |-> FALSE]
    ELSE [q |-> c.q, err |-> "ErrIO", val |-> NoVal, exists |-> exists]

\* Queue.init: head and tail from the first and the last key of the store.
\* An iterator that fails (iterOk false) positions on no key.
init(q, iterOk) ==
    IF ~iterOk THEN Ret(q, "ErrIO", NoVal)
    ELSE IF DOMAIN q.store = {} THEN Ret(q, "nil", NoVal)
    ELSE Ret([q EXCEPT !.head = USub(keyToID(FirstKey(q.store)), 1),
                       !.tail = keyToID(LastKey(q.store))], "nil", NoVal)

\* OpenQueue on the directory holding store s.
OpenQueue(s, openOk, iterOk) ==
    IF ~openOk THEN Ret(NewQueue(s), "ErrIO", NoVal)
    ELSE init([NewQueue(s) EXCEPT !.isOpen = TRUE], iterOk)

----------------------------------------------------------------------------
(* State *)

VARIABLES
    head,        \* q.head
    tail,        \* q.tail
    isOpen,      \* q.isOpen
    store,       \* the entries of the LevelDB database in q.DataDir
    lastOp,      \* the last call made and what it returned
    openErr,     \* the error OpenQueue returned for the current instance
    pristine,    \* the instance was opened over an empty store and is not closed
    clean,       \* the store was written only by instances opened over an empty store
    enqLog,      \* the values enqueued since the store was empty, while clean
    deqLog,      \* the values dequeued since the store was empty, while clean
    interleaved, \* an enqueue succeeded after a dequeue, while pristine
    cycling,     \* every enqueue so far found the queue empty, while pristine
    dirExists,   \* the directory q.DataDir exists
    threads,     \* SpecConc: each thread's position and locals
    lock,        \* SpecConc: the holder of q's mutex, 0 when free
    serial,      \* SpecConc: the queue after the calls so far, run one at a time
    obs          \* SpecConc: what has been observed of the calls

seqVars == <<lastOp, openErr, pristine, clean, enqLog, deqLog, interleaved,
            cycling, dirExists>>

concVars == <<threads, lock, serial, obs>>

vars == <<head, tail, isOpen, store, seqVars, concVars>>

\* The Queue the handlers act on.
Q == [head |-> head, tail |-> tail, isOpen |-> isOpen, store |-> store]

SetQ(q) ==
    /\ head' = q.head
    /\ tail' = q.tail
    /\ isOpen' = q.isOpen
    /\ store' = q.store

\* A call, what it returned, and whether the queue was open when it was made.
Op(op, r) == [op |-> op, err |-> r.err, val |-> r.val, wasOpen |-> isOpen]

\* Threads calling the queue in SpecConc.
NumThreads == 2

\* Calls made in a run of SpecConc; the i-th call, if an enqueue, enqueues i.
MaxCalls == 3

Threads == 1 .. NumThreads

Idle == [pc |-> "idle", op |-> "none", arg |-> NoVal, nextID |-> 0,
         err |-> "nil", val |-> NoVal, first |-> "none", rd |-> 0]

ConcInit ==
    /\ threads = [t \in Threads |-> Idle]
    /\ lock = 0
    /\ serial = [NewQueue(EmptyStore) EXCEPT !.isOpen = TRUE]
    /\ obs = [calls |-> 0, ok |-> TRUE, enqueued |-> {}, dequeued |-> <<>>,
              seen |-> [t \in Threads |-> {}]]

\* OpenQueue has returned a queue over a new, empty directory.
Init ==
    /\ head = 0
    /\ tail = 0
    /\ isOpen = TRUE
    /\ store = EmptyStore
    /\ lastOp = [Op("open", Ret(Q, "nil", NoVal)) EXCEPT !.wasOpen = FALSE]
    /\ openErr = "nil"
    /\ pristine = TRUE
    /\ clean = TRUE
    /\ enqLog = <<>>
    /\ deqLog = <<>>
    /\ interleaved = FALSE
    /\ cycling = TRUE
    /\ dirExists = TRUE
    /\ ConcInit

----------------------------------------------------------------------------
(* Spec: one call at a time.  A caller enqueues and dequeues only on a      *)
(* queue that OpenQueue returned without an error.                         *)

\* The logs after a call that changed the store (wrote = TRUE) or did not.
Logged(wrote, enq, deq, inter) ==
    IF ~wrote THEN UNCHANGED <<clean, enqLog, deqLog, interleaved, cycling>>
    ELSE IF pristine
        THEN /\ clean' = clean
             /\ enqLog' = enq
             /\ deqLog' = deq
             /\ interleaved' = inter
             /\ cycling' = (cycling /\ Len(enq) - Len(deq) <= 1)
    ELSE /\ clean' = FALSE
         /\ enqLog' = <<>>
         /\ deqLog' = <<>>
         /\ interleaved' = FALSE
         /\ cycling' = FALSE

\* What the caller may enqueue next.
Payloads ==
    IF pristine THEN {Len(enqLog) + 1} \cap (1 .. MaxOps) ELSE 1 .. NumValues

\* q.enqueue(value)
EnqueueCall(value, putOk) ==
    LET r == enqueue(Q, value, putOk) IN
    /\ openErr = "nil"
    /\ value \in Payloads
    /\ SetQ(r.q)
    /\ lastOp' = Op("enqueue", r)
    /\ Logged(r.err = "nil", Append(enqLog, value), deqLog,
              interleaved \/ deqLog # <<>>)
    /\ UNCHANGED <<openErr, pristine, dirExists, concVars>>

\* q.dequeue()
DequeueCall(getOk, delOk) ==
    LET r == dequeue(Q, getOk, delOk) IN
    /\ openErr = "nil"
    /\ SetQ(r.q)
    /\ lastOp' = Op("dequeue", r)
    /\ Logged(r.err = "nil", enqLog, Append(deqLog, r.val), interleaved)
    /\ UNCHANGED <<openErr, pristine, dirExists, concVars>>

\* q.EnqueueObject(obj)
EnqueueObjectCall(obj, putOk) ==
    LET r == EnqueueObject(Q, obj, putOk) IN
    /\ openErr = "nil"
    /\ obj.n \in Payloads
    /\ SetQ(r.q)
    /\ lastOp' = Op("EnqueueObject", r)
    /\ Logged(r.err = "nil", Append(enqLog, GobEncode(obj).bytes), deqLog,
              interleaved \/ deqLog # <<>>)
    /\ UNCHANGED <<openErr, pristine, dirExists, concVars>>

\* q.DequeueObject(&v), v a variable of the type target
DequeueObjectCall(target, getOk, delOk) ==
    LET r == DequeueObject(Q, target, getOk, delOk) IN
    /\ openErr = "nil"
    /\ SetQ(r.q)
    /\ lastOp' = Op("DequeueObject", r)
    /\ Logged(r.q.head # head, enqLog,
              Append(deqLog, getValueByID(Q, NextID(head), TRUE).val),
              interleaved)
    /\ UNCHANGED <<openErr, pristine, dirExists, concVars>>

\* q.Length()
LengthCall ==
    /\ lastOp' = Op("Length", Ret(Q, "nil", Length(head, tail)))
    /\ UNCHANGED <<head, tail, isOpen, store, openErr, pristine, clean,
                   enqLog, deqLog, interleaved, cycling, dirExists, concVars>>

\* q.Close()
CloseCall(closeOk) ==
    LET r == Close(Q, closeOk) IN
    /\ SetQ(r.q)
    /\ lastOp' = Op("Close", r)
    /\ pristine' = (pristine /\ r.q.isOpen)
    /\ UNCHANGED <<openErr, clean, enqLog, deqLog, interleaved, cycling,
                   dirExists, concVars>>

\* q.Drop()
DropCall(closeOk, rmOk) ==
    LET r == Drop(Q, dirExists, closeOk, rmOk) IN
    /\ SetQ(r.q)
    /\ dirExists' = r.exists
    /\ lastOp' = Op("Drop", r)
    /\ pristine' = (pristine /\ r.q.isOpen)
    /\ UNCHANGED <<openErr, clean, enqLog, deqLog, interleaved, cycling,
                   concVars>>

\* OpenQueue(q.DataDir): a new instance over the store as it is, after the
\* former instance was closed or its process ended.  leveldb.OpenFile
\* creates the directory when it is missing.
OpenCall(openOk, iterOk) ==
    LET r == OpenQueue(store, openOk, iterOk)
        fresh == r.err = "nil" /\ DOMAIN store = {}
    IN
    /\ SetQ(r.q)
    /\ lastOp' = Op("open", r)
    /\ openErr' = r.err
    /\ dirExists' = (dirExists \/ openOk)
    /\ pristine' = fresh
    /\ IF fresh
        THEN /\ clean' = TRUE
             /\ enqLog' = <<>>
             /\ deqLog' = <<>>
             /\ interleaved' = FALSE
             /\ cycling' = TRUE
        ELSE UNCHANGED <<clean, enqLog, deqLog, interleaved, cycling>>
    /\ UNCHANGED concVars

Next ==
    \/ \E value \in 1 .. MaxOps, putOk \in BOOLEAN : EnqueueCall(value, putOk)
    \/ \E getOk \in BOOLEAN, delOk \in BOOLEAN : DequeueCall(getOk, delOk)
    \/ LengthCall
    \/ \E closeOk \in BOOLEAN : CloseCall(closeOk)
    \/ \E closeOk \in BOOLEAN, rmOk \in BOOLEAN : DropCall(closeOk, rmOk)
    \/ \E openOk \in BOOLEAN, iterOk \in BOOLEAN : OpenCall(openOk, iterOk)

Spec == Init /\ [][Next]_vars

----------------------------------------------------------------------------
(* SpecObj: one call at a time, of the calls that take and return objects.  *)

NextObj ==
    \/ \E type \in ObjTypes, n \in 1 .. MaxOps, putOk \in BOOLEAN :
          EnqueueObjectCall([type |-> type, n |-> n], putOk)
    \/ \E target \in DecodeTypes, getOk \in BOOLEAN, delOk \in BOOLEAN :
          DequeueObjectCall(target, getOk, delOk)
    \/ LengthCall

SpecObj == Init /\ [][NextObj]_vars

----------------------------------------------------------------------------
(* SpecLookup: getValueByID called with every identifier of the ring on an  *)
(* open queue with any head and tail of the ring.                           *)

RECURSIVE RingStore(_, _)
\* The entries enqueue has written and dequeue has not deleted when head = h
\* and tail = t: one under each identifier from NextID(h) to t, here the
\* identifier plus one.
RingStore(h, t) ==
    IF h = t THEN EmptyStore
    ELSE Put(RingStore(NextID(h), t), idToKey(NextID(h)), NextID(h) + 1)

InitLookup ==
    /\ head \in 0 .. MaxQueueSize - 1
    /\ tail \in 0 .. MaxQueueSize - 1
    /\ isOpen = TRUE
    /\ store = RingStore(head, tail)
    /\ lastOp = [Op("open", Ret(Q, "nil", NoVal)) EXCEPT !.wasOpen = FALSE]
    /\ openErr = "nil"
    /\ pristine = FALSE
    /\ clean = FALSE
    /\ enqLog = <<>>
    /\ deqLog = <<>>
    /\ interleaved = FALSE
    /\ cycling = FALSE
    /\ dirExists = TRUE
    /\ ConcInit

\* q.getValueByID(id)
LookupCall(id, getOk) ==
    LET got == getValueByID(Q, id, getOk) IN
    /\ lastOp' = [op |-> "getValueByID", id |-> id, err |-> got.err,
                  val |-> got.val, wasOpen |-> isOpen]
    /\ UNCHANGED <<head, tail, isOpen, store, openErr, pristine, clean,
                   enqLog, deqLog, interleaved, cycling, dirExists, concVars>>

NextLookup ==
    \E id \in 0 .. MaxQueueSize - 1, getOk \in BOOLEAN : LookupCall(id, getOk)

SpecLookup == InitLookup /\ [][NextLookup]_vars

----------------------------------------------------------------------------
(* SpecConc: threads calling enqueue, dequeue, Close and Length on one      *)
(* queue.  A step is one statement of a handler; Lock and the deferred      *)
(* Unlock are steps of their own.  Length takes no lock.                    *)

Th(t) == threads[t]

Goto(t, pc) == threads' = [threads EXCEPT ![t].pc = pc]

\* A return with the deferred q.Unlock() still to run.
Return(t, err, val) ==
    threads' = [threads EXCEPT ![t].pc = "unlock", ![t].err = err, ![t].val = val]

\* The (head, tail) pairs held while a Length call is running, with the pair
\* <<h, t>> just written.
Saw(h, t) ==
    obs' = [obs EXCEPT !.seen = [u \in Threads |->
                IF Th(u).pc \in {"l_rd1", "l_rd2"}
                THEN obs.seen[u] \cup {<<h, t>>} ELSE obs.seen[u]]]

\* A mutant: a lock that is granted while another thread holds it.
CanLock_always == TRUE

\* q.Lock() is granted when no thread holds the mutex.
CanLock == lock = 0

\* A thread calls enqueue, dequeue, Close or Length.
Start(t, op) ==
    /\ Th(t).pc = "idle"
    /\ obs.calls < MaxCalls
    /\ threads' = [threads EXCEPT ![t] =
            [Idle EXCEPT !.op = op,
                         !.arg = IF op = "enqueue" THEN obs.calls + 1 ELSE NoVal,
                         !.pc = CASE op = "enqueue" -> "e_lock"
                                  [] op = "dequeue" -> "d_lock"
                                  [] op = "Close" -> "c_lock"
                                  [] op = "Length" -> "l_rd1"]]
    /\ obs' = [obs EXCEPT !.calls = @ + 1,
                          !.seen[t] = IF op = "Length" THEN {<<head, tail>>} ELSE {}]
    /\ UNCHANGED <<head, tail, isOpen, store, lock, serial, seqVars>>

\* q.Lock()
Lock(t) ==
    /\ Th(t).pc \in {"e_lock", "d_lock", "c_lock"}
    /\ CanLock
    /\ lock' = t
    /\ Goto(t, CASE Th(t).pc = "e_lock" -> "e_check"
                 [] Th(t).pc = "d_lock" -> "d_check"
                 [] Th(t).pc = "c_lock" -> "c_check")
    /\ UNCHANGED <<head, tail, isOpen, store, serial, obs, seqVars>>

\* enqueue: the closed check, nextID and the full check.
EnqueueCheck(t) ==
    /\ Th(t).pc = "e_check"
    /\ IF ~isOpen THEN Return(t, "ErrDBClosed", NoVal)
       ELSE IF IsFull(head, tail) THEN Return(t, "ErrFull", NoVal)
       ELSE threads' = [threads EXCEPT ![t].pc = "e_put",
                                       ![t].nextID = NextID(tail)]
    /\ UNCHANGED <<head, tail, isOpen, store, lock, serial, obs, seqVars>>

\* enqueue: q.db.Put(key, value, nil)
EnqueuePut(t, putOk) ==
    /\ Th(t).pc = "e_put"
    /\ IF putOk
        THEN /\ store' = Put(store, idToKey(Th(t).nextID), Th(t).arg)
             /\ Goto(t, "e_tail")
        ELSE /\ store' = store
             /\ Return(t, "ErrIO", NoVal)
    /\ UNCHANGED <<head, tail, isOpen, lock, serial, obs, seqVars>>

\* enqueue: q.tail = nextID
EnqueueTail(t) ==
    /\ Th(t).pc = "e_tail"
    /\ tail' = Th(t).nextID
    /\ Saw(head, Th(t).nextID)
    /\ Return(t, "nil", NoVal)
    /\ UNCHANGED <<head, isOpen, store, lock, serial, seqVars>>

\* dequeue: the closed check, nextID and q.getValueByID(nextID).
DequeueCheck(t, getOk) ==
    LET got == getValueByID(Q, NextID(head), getOk) IN
    /\ Th(t).pc = "d_check"
    /\ IF ~isOpen THEN Return(t, "ErrDBClosed", NoVal)
       ELSE IF got.err # "nil" THEN Return(t, got.err, NoVal)
       ELSE threads' = [threads EXCEPT ![t].pc = "d_del",
                                       ![t].nextID = NextID(head),
                                       ![t].val = got.val]
    /\ UNCHANGED <<head, tail, isOpen, store, lock, serial, obs, seqVars>>

\* dequeue: q.db.Delete(key, nil)
DequeueDelete(t, delOk) ==
    /\ Th(t).pc = "d_del"
    /\ IF delOk
        THEN /\ store' = Delete(store, idToKey(Th(t).nextID))
             /\ Goto(t, "d_head")
        ELSE /\ store' = store
             /\ Return(t, "ErrDelete", NoVal)
    /\ UNCHANGED <<head, tail, isOpen, lock, serial, obs, seqVars>>

\* dequeue: q.head = nextID
DequeueHead(t) ==
    /\ Th(t).pc = "d_head"
    /\ head' = Th(t).nextID
    /\ Saw(Th(t).nextID, tail)
    /\ Return(t, "nil", Th(t).val)
    /\ UNCHANGED <<tail, isOpen, store, lock, serial, seqVars>>

\* Close: the closed check and q.db.Close()
CloseCheck(t, closeOk) ==
    /\ Th(t).pc = "c_check"
    /\ IF ~isOpen THEN Return(t, "nil", NoVal)
       ELSE IF ~closeOk THEN Return(t, "ErrIO", NoVal)
       ELSE Goto(t, "c_head")
    /\ UNCHANGED <<head, tail, isOpen, store, lock, serial, obs, seqVars>>

\* Close: q.head = 0
CloseHead(t) ==
    /\ Th(t).pc = "c_head"
    /\ head' = 0
    /\ Saw(0, tail)
    /\ Goto(t, "c_tail")
    /\ UNCHANGED <<tail, isOpen, store, lock, serial, seqVars>>

\* Close: q.tail = 0
CloseTail(t) ==
    /\ Th(t).pc = "c_tail"
    /\ tail' = 0
    /\ Saw(head, 0)
    /\ Goto(t, "c_open")
    /\ UNCHANGED <<head, isOpen, store, lock, serial, seqVars>>

\* Close: q.isOpen = false
CloseOpen(t) ==
    /\ Th(t).pc = "c_open"
    /\ isOpen' = FALSE
    /\ Return(t, "nil", NoVal)
    /\ UNCHANGED <<head, tail, store, lock, serial, obs, seqVars>>

\* The call of thread t run on the queue s by the whole handler, the store
\* failing where it failed for t.
SerialCall(t, s) ==
    CASE Th(t).op = "enqueue" -> enqueue(s, Th(t).arg, Th(t).err # "ErrIO")
      [] Th(t).op = "dequeue" -> dequeue(s, Th(t).err # "ErrIO",
                                         Th(t).err # "ErrDelete")
      [] Th(t).op = "Close" -> Close(s, Th(t).err # "ErrIO")

\* The deferred q.Unlock(); the call returns.  The same call is run on the
\* serial queue and the two results are compared.
Unlock(t) ==
    LET r == SerialCall(t, serial) IN
    /\ Th(t).pc = "unlock"
    /\ lock' = 0
    /\ Goto(t, "idle")
    /\ serial' = r.q
    /\ obs' = [obs EXCEPT
            !.ok = @ /\ r.err = Th(t).err /\ r.val = Th(t).val,
            !.enqueued = IF Th(t).op = "enqueue" /\ Th(t).err = "nil"
                         THEN @ \cup {Th(t).arg} ELSE @,
            !.dequeued = IF Th(t).op = "dequeue" /\ Th(t).err = "nil"
                         THEN Append(@, Th(t).val) ELSE @]
    /\ UNCHANGED <<head, tail, isOpen, store, seqVars>>

\* Length reads q.tail and q.head without the lock, in either order.
LengthRead1(t, first) ==
    /\ Th(t).pc = "l_rd1"
    /\ threads' = [threads EXCEPT ![t].pc = "l_rd2", ![t].first = first,
                       ![t].rd = IF first = "tail" THEN tail ELSE head]
    /\ UNCHANGED <<head, tail, isOpen, store, lock, serial, obs, seqVars>>

\* Length reads the other counter and returns.
LengthRead2(t) ==
    /\ Th(t).pc = "l_rd2"
    /\ threads' = [threads EXCEPT ![t].pc = "idle", ![t].err = "nil",
                       ![t].val = IF Th(t).first = "tail"
                                  THEN Length(head, Th(t).rd)
                                  ELSE Length(Th(t).rd, tail)]
    /\ UNCHANGED <<head, tail, isOpen, store, lock, serial, obs, seqVars>>

NextConc ==
    \E t \in Threads :
        \/ \E op \in {"enqueue", "dequeue", "Close", "Length"} : Start(t, op)
        \/ Lock(t)
        \/ EnqueueCheck(t)
        \/ \E putOk \in BOOLEAN : EnqueuePut(t, putOk)
        \/ EnqueueTail(t)
        \/ \E getOk \in BOOLEAN : DequeueCheck(t, getOk)
        \/ \E delOk \in BOOLEAN : DequeueDelete(t, delOk)
        \/ DequeueHead(t)
        \/ \E closeOk \in BOOLEAN : CloseCheck(t, closeOk)
        \/ CloseHead(t)
        \/ CloseTail(t)
        \/ CloseOpen(t)
        \/ Unlock(t)
        \/ \E first \in {"tail", "head"} : LengthRead1(t, first)
        \/ LengthRead2(t)

SpecConc == Init /\ [][NextConc]_vars

----------------------------------------------------------------------------
(* Properties of Spec *)

EnqueueStep == \E value \in 1 .. MaxOps, putOk \in BOOLEAN : EnqueueCall(value, putOk)

DequeueStep == \E getOk \in BOOLEAN, delOk \in BOOLEAN : DequeueCall(getOk, delOk)

\* The identifiers head+1, ..., tail, following the ring.
RingIDs(h, t) ==
    IF h <= t THEN (h + 1) .. t
    ELSE ((h + 1) .. (MaxQueueSize - 1)) \cup (0 .. t)

\* C1.  FIFO law: on a queue opened over an empty store, enqueues followed by
\* dequeues (no enqueue after the first dequeue) return the values in the
\* order they were enqueued: the values dequeued are the first ones enqueued,
\* and a dequeue fails as empty only when all of them have been returned.
C1_FifoEnqueuesThenDequeues ==
    (pristine /\ ~interleaved) =>
        /\ Len(deqLog) <= Len(enqLog)
        /\ deqLog = SubSeq(enqLog, 1, Len(deqLog))
        /\ lastOp.op = "dequeue" =>
              \/ lastOp.err \in {"nil", "ErrIO", "ErrDelete"}
              \/ lastOp.err = "ErrEmpty" /\ deqLog = enqLog

\* C1 witness: MaxQueueSize-1 values enqueued, then all of them dequeued.
C1_Witness ==
    /\ pristine /\ ~interleaved
    /\ lastOp.op = "dequeue" /\ lastOp.err = "nil"
    /\ Len(enqLog) = MaxQueueSize - 1
    /\ deqLog = enqLog

\* C2.  Recovery: a queue opened over a store left by enqueues and dequeues,
\* with entries in it, has Length() equal to the enqueues minus the dequeues,
\* and its next dequeue returns the oldest value not yet dequeued.
C2_RecoveryRebuildsRing ==
    (/\ lastOp.op = "open" /\ lastOp.err = "nil"
     /\ clean /\ Len(deqLog) < Len(enqLog)) =>
        /\ Length(head, tail) = Len(enqLog) - Len(deqLog)
        /\ dequeue(Q, TRUE, TRUE).err = "nil"
        /\ dequeue(Q, TRUE, TRUE).val = enqLog[Len(deqLog) + 1]

\* C3.  On a queue opened over an empty store, Length() returns the number of
\* successful enqueues minus the number of successful dequeues.
C3_LengthIsEnqueuesMinusDequeues ==
    (pristine /\ lastOp.op = "Length") =>
        lastOp.val = Len(enqLog) - Len(deqLog)

\* C3 witness: Length() called after enqueues and dequeues in mixed order.
C3_Witness ==
    /\ pristine /\ interleaved
    /\ lastOp.op = "Length" /\ lastOp.val = 2
    /\ Len(deqLog) >= 2

\* C4.  An enqueue on an open queue with (tail + 1) mod MaxQueueSize = head
\* fails with ErrFull and changes nothing; and the store of the queue never
\* holds more than MaxQueueSize - 1 entries.
C4_FullEnqueueFailsAndBoundsSize ==
    /\ [][(isOpen /\ NextID(tail) = head /\ EnqueueStep) =>
            /\ lastOp'.err = "ErrFull"
            /\ UNCHANGED <<head, tail, isOpen, store>>]_vars
    /\ [](Cardinality(DOMAIN store) <= MaxQueueSize - 1)

\* C5.  A dequeue on an open queue with head = tail fails with ErrEmpty and
\* changes neither head nor tail nor the store.
C5_DequeueEmptyChangesNothing ==
    [][(isOpen /\ head = tail /\ DequeueStep) =>
          /\ lastOp'.err = "ErrEmpty"
          /\ lastOp'.val = NoVal
          /\ UNCHANGED <<head, tail, isOpen, store>>]_vars

\* C5 witness: a dequeue failed as empty with head = tail at the last
\* identifier of the ring.
C5_Witness ==
    /\ isOpen /\ pristine
    /\ lastOp.op = "dequeue" /\ lastOp.err = "ErrEmpty"
    /\ head = tail /\ head = MaxQueueSize - 1

\* C6.  On a closed queue every enqueue and dequeue fails with ErrDBClosed
\* and leaves the store and the queue as they are, and Length() is 0.
C6_ClosedQueueRejectsCalls ==
    /\ [][(~isOpen /\ (EnqueueStep \/ DequeueStep)) =>
            /\ lastOp'.err = "ErrDBClosed"
            /\ UNCHANGED <<head, tail, isOpen, store>>]_vars
    /\ [](~isOpen => Length(head, tail) = 0)

\* C6 witness: a call refused after Close() on a queue that held entries.
C6_Witness ==
    /\ ~isOpen /\ openErr = "nil"
    /\ lastOp.op \in {"enqueue", "dequeue"} /\ lastOp.err = "ErrDBClosed"
    /\ Cardinality(DOMAIN store) >= 2

\* C9.  Ring/store invariant: on a queue opened over an empty store, the keys
\* of the store are exactly the encodings of head+1, ..., tail (mod
\* MaxQueueSize), one key for each.
C9_RingStoreInvariant ==
    pristine =>
        /\ DOMAIN store = {idToKey(id) : id \in RingIDs(head, tail)}
        /\ Cardinality(DOMAIN store) = Cardinality(RingIDs(head, tail))

\* C9 witness: a wrapped ring holding several entries, after a failed call.
C9_Witness ==
    /\ pristine /\ tail < head
    /\ Cardinality(DOMAIN store) >= 2
    /\ lastOp.err # "nil"

\* C10.  On a queue opened over an empty store, Length() is the number of
\* entries stored, also when tail has wrapped past 0 and head has not.
C10_LengthCountsStoredEntries ==
    pristine => Length(head, tail) = Cardinality(DOMAIN store)

\* C10 witness: head = MaxQueueSize - 1, tail = 0 and Length() = 1.
C10_Witness ==
    /\ pristine
    /\ head = MaxQueueSize - 1 /\ tail = 0
    /\ Length(head, tail) = 1

\* C11.  Wraparound cycle: on a queue opened over an empty store, while each
\* enqueue is followed by a dequeue, every call succeeds (unless the store
\* fails), after c cycles head = tail = c mod MaxQueueSize, an enqueue more
\* gives Length() = 1, and after MaxQueueSize cycles head = tail = 0.
C11_WraparoundCycle ==
    (pristine /\ cycling) =>
        /\ head = Len(deqLog) % MaxQueueSize
        /\ tail = Len(enqLog) % MaxQueueSize
        /\ Length(head, tail) = Len(enqLog) - Len(deqLog)
        /\ Len(enqLog) - Len(deqLog) \in {0, 1}
        /\ (Len(enqLog) = MaxQueueSize /\ Len(deqLog) = MaxQueueSize) =>
              (head = 0 /\ tail = 0)
        /\ lastOp.op = "enqueue" => lastOp.err \in {"nil", "ErrIO"}
        /\ lastOp.op = "dequeue" =>
              \/ lastOp.err \in {"nil", "ErrIO", "ErrDelete"}
              \/ lastOp.err = "ErrEmpty" /\ deqLog = enqLog

\* C11 witness: the dequeue of the MaxQueueSize-th cycle has returned.
C11_Witness ==
    /\ pristine /\ cycling
    /\ lastOp.op = "dequeue" /\ lastOp.err = "nil"
    /\ Len(enqLog) = MaxQueueSize /\ Len(deqLog) = MaxQueueSize
    /\ head = 0 /\ tail = 0

CloseStep == \E closeOk \in BOOLEAN : CloseCall(closeOk)

\* C12.  Close is idempotent: Close() on an instance that is not open returns
\* nil whatever the store would answer, and leaves head, tail, isOpen and the
\* store as they were.
C12_CloseIsIdempotent ==
    [][(CloseStep /\ ~isOpen) =>
          /\ lastOp'.err = "nil"
          /\ UNCHANGED <<head, tail, isOpen, store>>]_vars

\* C12 witness: a second Close() on an instance that OpenQueue returned and
\* a first Close() closed.
C12_Witness ==
    /\ openErr = "nil"
    /\ lastOp.op = "Close" /\ ~lastOp.wasOpen /\ lastOp.err = "nil"
    /\ ~isOpen /\ head = 0 /\ tail = 0
    /\ DOMAIN store # {}

DropStep == \E closeOk \in BOOLEAN, rmOk \in BOOLEAN : DropCall(closeOk, rmOk)

\* C13.  Drop closes, then deletes: after a Drop() that returns nil the queue
\* is closed and its directory is gone, whether the queue was open or closed
\* before; and whenever the queue is still open after Drop() (Close failed),
\* Drop() returned the error and the directory and its entries are untouched.
C13_DropClosesThenDeletes ==
    [][DropStep =>
          /\ lastOp'.err = "nil" =>
                (~isOpen' /\ ~dirExists' /\ store' = EmptyStore)
          /\ isOpen' =>
                /\ lastOp'.err = "ErrIO"
                /\ UNCHANGED <<head, tail, store, dirExists>>
          /\ (dirExists /\ ~dirExists') => ~isOpen']_vars

\* C13 witness: Drop() has returned nil on an open queue that held entries.
C13_Witness ==
    /\ lastOp.op = "Drop" /\ lastOp.wasOpen /\ lastOp.err = "nil"
    /\ ~isOpen /\ ~dirExists
    /\ clean /\ Len(deqLog) < Len(enqLog)

EnqueueObjectStep ==
    \E type \in ObjTypes, n \in 1 .. MaxOps, putOk \in BOOLEAN :
        EnqueueObjectCall([type |-> type, n |-> n], putOk)

DequeueObjectStep ==
    \E target \in DecodeTypes, getOk \in BOOLEAN, delOk \in BOOLEAN :
        DequeueObjectCall(target, getOk, delOk)

\* C14.  A DequeueObject() that fails in decoding has removed the entry: its
\* key is deleted and head is advanced, so a dequeue that follows returns the
\* entry after it (or finds the queue empty).  An EnqueueObject() that fails
\* in encoding has written nothing and leaves tail where it was.
C14_ObjectFailures ==
    [][/\ (DequeueObjectStep /\ lastOp'.err = "ErrDecode") =>
              /\ idToKey(NextID(head)) \in DOMAIN store
              /\ store' = Delete(store, idToKey(NextID(head)))
              /\ head' = NextID(head)
              /\ tail' = tail /\ isOpen'
              /\ pristine =>
                    IF Len(deqLog') < Len(enqLog')
                        THEN dequeue(Q', TRUE, TRUE).val = enqLog'[Len(deqLog') + 1]
                    ELSE dequeue(Q', TRUE, TRUE).err = "ErrEmpty"
       /\ (EnqueueObjectStep /\ lastOp'.err = "ErrEncode") =>
              UNCHANGED <<head, tail, isOpen, store>>]_vars

\* C14 witness: DequeueObject() has failed in decoding the oldest of several
\* entries.
C14_Witness ==
    /\ pristine
    /\ lastOp.op = "DequeueObject" /\ lastOp.err = "ErrDecode"
    /\ Len(deqLog) >= 1 /\ Len(deqLog) < Len(enqLog)
    /\ head = Len(deqLog) % MaxQueueSize
    /\ idToKey(head) \notin DOMAIN store

\* C15.  Identifier range: head and tail are identifiers of the ring,
\* 0 <= head < MaxQueueSize and 0 <= tail < MaxQueueSize, in every state,
\* including the state OpenQueue leaves over a store whose smallest key is 0.
C15_CountersInRange ==
    /\ head \in 0 .. MaxQueueSize - 1
    /\ tail \in 0 .. MaxQueueSize - 1

\* C16.  Every enqueue that returns nil, in any state and also after a
\* reopen, adds exactly one key that was not in the store, the encoding of
\* (tail + 1) mod MaxQueueSize, makes that identifier the tail, and leaves
\* every other entry and head as they were: no entry still to be dequeued is
\* overwritten.
C16_EnqueueAddsOneNewKey ==
    [][(EnqueueStep /\ lastOp'.err = "nil") =>
          /\ idToKey(NextID(tail)) \notin DOMAIN store
          /\ DOMAIN store' = DOMAIN store \cup {idToKey(NextID(tail))}
          /\ \A k \in DOMAIN store : store'[k] = store[k]
          /\ tail' = NextID(tail)
          /\ head' = head]_vars

\* C17.  An enqueue whose db.Put fails returns the store's error and leaves
\* tail, head, isOpen and the store as they were, so that an enqueue that
\* succeeds next writes the same identifier, (tail + 1) mod MaxQueueSize.
C17_PutFailureChangesNothing ==
    [][(EnqueueStep /\ lastOp'.err = "ErrIO") =>
          /\ isOpen /\ ~IsFull(head, tail)
          /\ UNCHANGED <<head, tail, isOpen, store>>
          /\ LET again == enqueue(Q', 1, TRUE) IN
                /\ again.err = "nil"
                /\ again.q.tail = NextID(tail)
                /\ again.q.store = Put(store, idToKey(NextID(tail)), 1)]_vars

\* C17 witness: db.Put has failed in an enqueue on a queue holding entries.
C17_Witness ==
    /\ pristine
    /\ lastOp.op = "enqueue" /\ lastOp.err = "ErrIO"
    /\ Len(enqLog) >= 2
    /\ tail = Len(enqLog) % MaxQueueSize
    /\ idToKey(NextID(tail)) \notin DOMAIN store

\* C18.  A dequeue whose db.Delete fails returns the store's error and no
\* value, and leaves head and the store as they were: the entry is still
\* there, and a dequeue that succeeds next returns it.
C18_DeleteFailureChangesNothing ==
    [][(DequeueStep /\ lastOp'.err = "ErrDelete") =>
          /\ lastOp'.val = NoVal
          /\ UNCHANGED <<head, tail, isOpen, store>>
          /\ idToKey(NextID(head)) \in DOMAIN store'
          /\ LET again == dequeue(Q', TRUE, TRUE) IN
                /\ again.err = "nil"
                /\ again.val = store[idToKey(NextID(head))]
                /\ again.q.head = NextID(head)]_vars

\* C18 witness: db.Delete has failed in a dequeue, the oldest entry is still
\* stored.
C18_Witness ==
    /\ pristine
    /\ lastOp.op = "dequeue" /\ lastOp.err = "ErrDelete" /\ lastOp.val = NoVal
    /\ Len(deqLog) >= 1 /\ Len(deqLog) < Len(enqLog)
    /\ head = Len(deqLog) % MaxQueueSize
    /\ store[idToKey(NextID(head))] = enqLog[Len(deqLog) + 1]

\* C20.  FIFO under any interleaving: on one instance opened over an empty
\* store, whatever the order of enqueue and dequeue calls and however often
\* head and tail have wrapped, the values dequeued are the first values
\* enqueued, in order, and each successful dequeue returns the oldest value
\* not yet dequeued.
C20_FifoAnyInterleaving ==
    pristine =>
        /\ Len(deqLog) <= Len(enqLog)
        /\ \A i \in 1 .. Len(deqLog) : deqLog[i] = enqLog[i]
        /\ (lastOp.op = "dequeue" /\ lastOp.err = "nil") =>
              (deqLog # <<>> /\ lastOp.val = enqLog[Len(deqLog)])

\* C20 witness: enqueues and dequeues interleaved with several entries
\* queued at a time, head has wrapped twice and the queue is not empty.
C20_Witness ==
    /\ pristine /\ interleaved /\ ~cycling
    /\ lastOp.op = "dequeue" /\ lastOp.err = "nil"
    /\ Len(deqLog) >= 2 * MaxQueueSize
    /\ Len(enqLog) > Len(deqLog)
    /\ head = 0

----------------------------------------------------------------------------
(* Properties of SpecLookup *)

\* C19.  getValueByID, for every head, tail and id in [0, MaxQueueSize):
\* it returns ErrEmpty exactly when head = tail; otherwise it returns
\* ErrOutOfBounds exactly when id is none of the identifiers head+1, ..., tail
\* of the ring; and for the identifiers of the ring it asks the store and
\* returns the entry's bytes, or the store's error.
C19_LookupBounds ==
    lastOp.op = "getValueByID" =>
        /\ lastOp.err = "ErrEmpty" <=> head = tail
        /\ head # tail =>
              (lastOp.err = "ErrOutOfBounds" <=> lastOp.id \notin RingIDs(head, tail))
        /\ (head # tail /\ lastOp.id \in RingIDs(head, tail)) =>
              \/ lastOp.err = "nil" /\ lastOp.val = store[idToKey(lastOp.id)]
              \/ lastOp.err = "ErrIO" /\ lastOp.val = NoVal

\* C19 witness: an identifier past the wrap of a wrapped ring was looked up.
C19_Witness ==
    /\ lastOp.op = "getValueByID" /\ lastOp.err = "nil"
    /\ tail < head /\ head < MaxQueueSize - 1
    /\ lastOp.id = 0 /\ lastOp.val = 1

----------------------------------------------------------------------------
(* Properties of SpecConc *)

Range(f) == {f[x] : x \in DOMAIN f}

\* The values a dequeue has deleted from the store and not yet returned.
InFlight ==
    {Th(t).val : t \in {u \in Threads : /\ Th(u).op = "dequeue"
                                        /\ Th(u).pc \in {"d_head", "unlock"}
                                        /\ Th(u).err = "nil"}}

\* The number of places holding the value v.
Places(v) ==
    (IF v \in Range(store) THEN 1 ELSE 0)
    + (IF v \in Range(obs.dequeued) THEN 1 ELSE 0)
    + (IF v \in InFlight THEN 1 ELSE 0)

\* C7.  Concurrent enqueue, dequeue and Close calls are equivalent to the
\* same calls run one at a time in the order they release the lock: every
\* call returns what it returns in that serial run, the queue and the store
\* equal the serial ones whenever no call holds the lock, no value is
\* returned by two dequeues, and every value enqueued is in exactly one
\* place: the store, the values dequeued, or the hands of a dequeue that has
\* deleted it and not yet returned (no enqueue wrote over another's entry).
C7_CallsAreSerialized ==
    /\ obs.ok
    /\ lock = 0 => Q = serial
    /\ \A i, j \in DOMAIN obs.dequeued :
          i # j => obs.dequeued[i] # obs.dequeued[j]
    /\ Range(obs.dequeued) \subseteq obs.enqueued
    /\ \A v \in obs.enqueued :
          Places(v) = 1

\* C7 witness: two dequeues are after the one entry of the queue: one has
\* looked it up and is about to delete it, the other waits for the lock.
C7_Witness ==
    \E t, u \in Threads :
        /\ Th(t).pc = "d_del"
        /\ Th(u).pc = "d_lock"
        /\ Cardinality(obs.enqueued) = 1

\* C8.  A Length() call that has returned, returned (N + tail - head) mod N
\* for a (head, tail) pair that the queue held at some instant of the call.
C8_LengthReadsOnePair ==
    \A t \in Threads :
        (Th(t).pc = "idle" /\ Th(t).op = "Length") =>
            Th(t).val \in {Length(p[1], p[2]) : p \in obs.seen[t]}

=============================================================================
